---- MODULE Spec2Model ----
(***************************************************************************)
(* A model of rust-show-gamepad: the Mapping (src/src/mapping.rs), the     *)
(* axis calibration JoustickLimits/AxisLimits and the device aggregator    *)
(* Joysticks (src/src/joysticks.rs), and the Visualiser with its setup     *)
(* wizard, the SetupOverlay (src/src/visualizer.rs).                       *)
(***************************************************************************)
EXTENDS Integers, Sequences, FiniteSets, TLC

VARIABLES
    mapping,    \* Mapping.joysticks: guid -> Vec<SpriteMapping>
    mcall,      \* the last call made on the Mapping and its arguments
    mpre,       \* Mapping.joysticks as it was before the last call
    mret,       \* the Vec<usize> returned by the last Mapping::sprites
    limits,     \* JoustickLimits.limits: GuidAxis -> AxisLimits
    lcall,      \* the last call made on the JoustickLimits and its result
    joysticks,  \* Joysticks.joysticks: device id -> open Joystick (its guid)
    keyboard,   \* Joysticks.keyboard
    pressed,    \* Joysticks.pressed
    active,     \* Joysticks.active
    jcall,      \* the last call made on the Joysticks, what it read, its result
    default,    \* Visualiser.default: the ids of the default sprites
    setup,      \* Visualiser.setup: the SetupOverlay
    show_help,  \* Visualiser.show_help
    wcall,      \* the last call made on the Visualiser and what it did
    frame       \* the main loop: whether it runs, its calls in this frame

vars == <<mapping, mcall, mpre, mret, limits, lcall,
          joysticks, keyboard, pressed, active, jcall,
          default, setup, show_help, wcall, frame>>

mvars == <<mapping, mcall, mpre, mret>>
lvars == <<limits, lcall>>
jvars == <<joysticks, keyboard, pressed, active, jcall>>
wvars == <<default, setup, show_help, wcall, frame>>

(***************************************************************************)
(* Bounds of the model.                                                    *)
(***************************************************************************)
\* The largest number of entries the Mapping holds, over all devices.
MaxEntries == 3

Guids == {"G1", "G2"}
SpriteIds == {5, 6}
None == "None"

(***************************************************************************)
(* mapping.rs: Input                                                       *)
(***************************************************************************)
button(b) == [kind |-> "Button", index |-> b, sub |-> "-"]
axis_min(a) == [kind |-> "Axis", index |-> a, sub |-> "Minimum"]
axis_max(a) == [kind |-> "Axis", index |-> a, sub |-> "Maximum"]
hat(h, state) == [kind |-> "Hat", index |-> h, sub |-> state]

\* The inputs the Mapping is exercised with.
MInputs == {button(0), button(1)}

(***************************************************************************)
(* mapping.rs: SpriteMapping and Mapping                                   *)
(***************************************************************************)
SpriteMapping(buttons, sprite) == [buttons |-> buttons, sprite |-> sprite]

MappingNew == <<>>

\* The key of sort_by_key: (-(buttons.len() as isize), sprite), compared as a
\* tuple, first component first.
SortKeyLess(a, b) ==
    LET ka == 0 - Cardinality(a.buttons)
        kb == 0 - Cardinality(b.buttons)
    IN  \/ ka < kb
        \/ ka = kb /\ a.sprite < b.sprite

\* One step of the stable sort: x goes after every element whose key is not
\* greater than its own.
RECURSIVE InsertByKey(_, _)
InsertByKey(s, x) ==
    IF s = <<>> THEN <<x>>
    ELSE IF SortKeyLess(x, Head(s)) THEN <<x>> \o s
    ELSE <<Head(s)>> \o InsertByKey(Tail(s), x)

\* Vec::sort_by_key: a stable sort.
RECURSIVE SortByKey(_)
SortByKey(s) ==
    IF s = <<>> THEN <<>>
    ELSE InsertByKey(SortByKey(SubSeq(s, 1, Len(s) - 1)), s[Len(s)])

\* Vec::retain(|sm| sm.sprite() == sprite): keeps the elements the closure
\* accepts, in order.
RECURSIVE Retain(_, _)
Retain(s, sprite) ==
    IF s = <<>> THEN <<>>
    ELSE IF Head(s).sprite = sprite
         THEN <<Head(s)>> \o Retain(Tail(s), sprite)
         ELSE Retain(Tail(s), sprite)

EntryOf(m, guid) == IF guid \in DOMAIN m THEN m[guid] ELSE <<>>

\* A variant of Push that appends and does not sort.
PushUnsorted(m, guid, P, sprite) ==
    LET entry == EntryOf(m, guid)
        new == IF P = {} THEN Retain(entry, sprite)
               ELSE Append(entry, SpriteMapping(P, sprite))
    IN  [g \in DOMAIN m \cup {guid} |-> IF g = guid THEN new ELSE m[g]]

\* A variant of Push whose clear empties the lists of the other devices.
PushClearingOthers(m, guid, P, sprite) ==
    LET entry == EntryOf(m, guid)
        new == IF P = {} THEN Retain(entry, sprite)
               ELSE SortByKey(Append(entry, SpriteMapping(P, sprite)))
    IN  [g \in DOMAIN m \cup {guid} |->
            IF g = guid THEN new ELSE IF P = {} THEN <<>> ELSE m[g]]

\* Mapping::push
Push(m, guid, P, sprite) ==
    LET entry == EntryOf(m, guid)
        new == IF P = {} THEN Retain(entry, sprite)
               ELSE SortByKey(Append(entry, SpriteMapping(P, sprite)))
    IN  [g \in DOMAIN m \cup {guid} |-> IF g = guid THEN new ELSE m[g]]

\* The loop of Mapping::sprites over one device's list.
RECURSIVE SpritesOf(_, _)
SpritesOf(list, P) ==
    IF list = <<>> THEN <<>>
    ELSE IF P \subseteq Head(list).buttons   \* buttons().is_superset(pressed)
         THEN <<Head(list).sprite>> \o SpritesOf(Tail(list), P)
         ELSE SpritesOf(Tail(list), P)

\* Mapping::sprites
Sprites(m, guid, P) ==
    IF guid \in DOMAIN m THEN SpritesOf(m[guid], P) ELSE <<>>

RECURSIVE SumLen(_, _)
SumLen(m, D) ==
    IF D = {} THEN 0
    ELSE LET g == CHOOSE x \in D : TRUE
         IN  Len(m[g]) + SumLen(m, D \ {g})

NumEntries(m) == SumLen(m, DOMAIN m)

MCall(op, guid, P, sprite) ==
    [op |-> op, guid |-> guid, pressed |-> P, sprite |-> sprite]

MInit ==
    /\ mapping = MappingNew
    /\ mcall = MCall("new", None, {}, 0)
    /\ mpre = MappingNew
    /\ mret = <<>>

\* A call of Mapping::push.
MPush(guid, P, sprite) ==
    /\ P # {} => NumEntries(mapping) < MaxEntries
    /\ mapping' = Push(mapping, guid, P, sprite)
    /\ mcall' = MCall("push", guid, P, sprite)
    /\ mpre' = mapping
    /\ mret' = <<>>
    /\ UNCHANGED <<lvars, jvars, wvars>>

\* A call of Mapping::sprites.
MSprites(guid, P) ==
    /\ mret' = Sprites(mapping, guid, P)
    /\ mcall' = MCall("sprites", guid, P, 0)
    /\ mpre' = mapping
    /\ UNCHANGED <<mapping, lvars, jvars, wvars>>

NextMapping ==
    \/ \E guid \in Guids, P \in SUBSET MInputs, sprite \in SpriteIds :
           MPush(guid, P, sprite)
    \/ \E guid \in Guids, P \in SUBSET MInputs :
           MSprites(guid, P)

(***************************************************************************)
(* joysticks.rs: GuidAxis, AxisLimits, JoustickLimits                      *)
(***************************************************************************)
GuidAxis(guid, axis) == <<guid, axis>>

\* The calibration keys and the i16 samples the limits are exercised with.
LimitKeys == {GuidAxis("G1", 0), GuidAxis("G1", 1)}
AxisValues == {-32768, -15000, 0, 20000, 32767}

\* Rust's integer division truncates toward zero.
TruncDiv(a, b) == IF a >= 0 THEN a \div b ELSE 0 - ((0 - a) \div b)

Abs(x) == IF x < 0 THEN 0 - x ELSE x
Min2(a, b) == IF a < b THEN a ELSE b
Max2(a, b) == IF a > b THEN a ELSE b

\* AxisLimits::new
AxisLimitsNew(value) == [default |-> value, min |-> value, max |-> value]

\* A variant of extend that overwrites min and max with the sample.
AxisLimitsExtendOverwrite(l, value) ==
    [l EXCEPT !.min = value, !.max = value]

\* AxisLimits::extend
AxisLimitsExtend(l, value) ==
    [l EXCEPT !.min = Min2(l.min, value), !.max = Max2(l.max, value)]

\* AxisLimits::zone
AxisLimitsZone(l, value) ==
    LET bound == TruncDiv(Max2(l.min, l.max), 4)
        v == value
    IN  IF Abs(v - l.default) < bound THEN "Default"
        ELSE IF v < l.default THEN "Min"
        ELSE IF v > l.default THEN "Max"
        ELSE "Default"

JoustickLimitsNew == <<>>

\* JoustickLimits::reset
JoustickLimitsReset(lim) == <<>>

\* JoustickLimits::update
JoustickLimitsUpdate(lim, guid, axis, value) ==
    LET key == GuidAxis(guid, axis)
        entry == IF key \in DOMAIN lim THEN lim[key] ELSE AxisLimitsNew(value)
    IN  [k \in DOMAIN lim \cup {key} |->
            IF k = key THEN AxisLimitsExtend(entry, value) ELSE lim[k]]

\* A variant of zone that answers Min for a key it does not know.
JoustickLimitsZoneUnknownMin(lim, guid, axis, value) ==
    LET key == GuidAxis(guid, axis)
    IN  IF key \in DOMAIN lim THEN AxisLimitsZone(lim[key], value) ELSE "Min"

\* JoustickLimits::zone
JoustickLimitsZone(lim, guid, axis, value) ==
    LET key == GuidAxis(guid, axis)
    IN  IF key \in DOMAIN lim THEN AxisLimitsZone(lim[key], value) ELSE "Default"

LCall(op, key, value, known, zone) ==
    [op |-> op, key |-> key, value |-> value, known |-> known, zone |-> zone]

LInit ==
    /\ limits = JoustickLimitsNew
    /\ lcall = LCall("new", None, 0, FALSE, None)

\* A call of JoustickLimits::update.
JLUpdate(key, value) ==
    /\ limits' = JoustickLimitsUpdate(limits, key[1], key[2], value)
    /\ lcall' = LCall("update", key, value, key \in DOMAIN limits, None)
    /\ UNCHANGED <<mvars, jvars, wvars>>

\* A call of JoustickLimits::zone.
JLZone(key, value) ==
    /\ lcall' = LCall("zone", key, value, key \in DOMAIN limits,
                      JoustickLimitsZone(limits, key[1], key[2], value))
    /\ UNCHANGED <<limits, mvars, jvars, wvars>>

\* A call of JoustickLimits::reset.
JLReset ==
    /\ limits' = JoustickLimitsReset(limits)
    /\ lcall' = LCall("reset", None, 0, FALSE, None)
    /\ UNCHANGED <<mvars, jvars, wvars>>

MIdle ==
    /\ mapping = MappingNew
    /\ mcall = <<>>
    /\ mpre = MappingNew
    /\ mret = <<>>

(***************************************************************************)
(* joysticks.rs: Joysticks                                                 *)
(***************************************************************************)
\* The platform's device ids, the key codes, and what the devices report.
DeviceIds == {0, 1}
Keys == {97}
JoyAxisValues == {-32768, 32767}
HatStates == {"Centered", "Up"}

\* Joystick::guid of the device the platform opens under each id.
DeviceGuid(id) == IF id = 0 THEN "G1" ELSE IF id = 1 THEN "G2" ELSE "G3"

\* What a device of each GUID has: num_axes(), num_buttons(), num_hats().
NumAxes(guid) == 1
NumButtons(guid) == IF guid = "G1" THEN 1 ELSE 0    \* G3: an axis alone
NumHats(guid) == IF guid = "G2" THEN 1 ELSE 0

\* impl From<HatState> for State
StateFrom(value) == IF value = "Centered" THEN "Center" ELSE value

\* Input::key: a keyboard key as a Button keyed by its key code.
InputKey(key) == button(key)

\* What one device reports when read: a value per axis, button and hat.
Readings(guid) ==
    [axes : [1..NumAxes(guid) -> JoyAxisValues],
     buttons : [1..NumButtons(guid) -> BOOLEAN],
     hats : [1..NumHats(guid) -> HatStates]]

\* The orders in which HashMap::values() may yield the devices in D.
Orders(D) ==
    {o \in [1..Cardinality(D) -> D] : \A i, j \in 1..Cardinality(D) :
                                          i # j => o[i] # o[j]}

\* The reads update() makes of one device, in the order it makes them:
\* its axes, then its buttons, then its hats.
DeviceReads(id, guid, r) ==
    [i \in 1..NumAxes(guid) |->
        [id |-> id, guid |-> guid, kind |-> "axis", index |-> i - 1,
         value |-> r.axes[i]]]
    \o [i \in 1..NumButtons(guid) |->
        [id |-> id, guid |-> guid, kind |-> "button", index |-> i - 1,
         value |-> r.buttons[i]]]
    \o [i \in 1..NumHats(guid) |->
        [id |-> id, guid |-> guid, kind |-> "hat", index |-> i - 1,
         value |-> r.hats[i]]]

\* The reads of one update(), over the devices in the given order.
RECURSIVE AllReads(_, _, _)
AllReads(order, table, reads) ==
    IF order = <<>> THEN <<>>
    ELSE DeviceReads(Head(order), table[Head(order)], reads[Head(order)])
         \o AllReads(Tail(order), table, reads)

\* The body of the loops of update() for one read that succeeded. st holds
\* limits, pressed and active, and zones: what each axis read was classified.
ReadStep(st, rd) ==
    IF rd.kind = "axis" THEN
        LET lim == JoustickLimitsUpdate(st.limits, rd.guid, rd.index, rd.value)
            zone == JoustickLimitsZone(lim, rd.guid, rd.index, rd.value)
            st2 == [st EXCEPT !.limits = lim,
                              !.zones = @ \cup {<<rd.id, rd.index, zone>>}]
        IN  IF zone = "Min"
            THEN [st2 EXCEPT !.pressed = @ \cup {axis_min(rd.index)},
                             !.active = rd.guid]
            ELSE IF zone = "Max"
            THEN [st2 EXCEPT !.pressed = @ \cup {axis_max(rd.index)},
                             !.active = rd.guid]
            ELSE st2
    ELSE IF rd.kind = "button" THEN
        IF rd.value
        THEN [st EXCEPT !.pressed = @ \cup {button(rd.index)},
                        !.active = rd.guid]
        ELSE st
    ELSE
        IF rd.value # "Centered"
        THEN [st EXCEPT !.pressed = @ \cup {hat(rd.index, StateFrom(rd.value))},
                        !.active = rd.guid]
        ELSE st

RECURSIVE RunReads(_, _)
RunReads(rds, st) ==
    IF rds = <<>> THEN st ELSE RunReads(Tail(rds), ReadStep(st, Head(rds)))

\* The end of update(), and what it leaves when read number fail returns an
\* error (fail = 0: every read succeeds). st is the state after the clear.
UpdateFrom(st, kb, rds, fail) ==
    IF fail = 0 THEN
        LET done == RunReads(rds, st)
        IN  IF kb # {}
            THEN [done EXCEPT !.pressed = @ \cup kb, !.active = "Keyboard",
                              !.ret = "Ok"]
            ELSE [done EXCEPT !.ret = "Ok"]
    ELSE [RunReads(SubSeq(rds, 1, fail - 1), st) EXCEPT !.ret = "Err"]

\* A variant of update() that does not clear pressed.
JoysticksUpdateNoClear(lim, old, kb, rds, fail) ==
    UpdateFrom([limits |-> lim, pressed |-> old, active |-> None,
                zones |-> {}, ret |-> None], kb, rds, fail)

\* A variant of update() in which a held key takes the active device only
\* when no device has.
JoysticksUpdateDevicesWin(lim, old, kb, rds, fail) ==
    LET out == UpdateFrom([limits |-> lim, pressed |-> {}, active |-> None,
                           zones |-> {}, ret |-> None], {}, rds, fail)
    IN  IF fail = 0 /\ kb # {}
        THEN [out EXCEPT !.pressed = @ \cup kb,
                         !.active = IF @ = None THEN "Keyboard" ELSE @]
        ELSE out

\* Joysticks::update, on the limits, the keyboard set and the reads it makes:
\* the limits, pressed and active it leaves and what it returns.
JoysticksUpdate(lim, old, kb, rds, fail) ==
    UpdateFrom([limits |-> lim, pressed |-> {}, active |-> None,
                zones |-> {}, ret |-> None], kb, rds, fail)

\* jcall: what the last update() returned, the devices it iterated, what
\* they reported, what each axis was classified and the keys that were held
\* (all empty when it failed).
JCall(ret, polled, reads, zones, kb) ==
    [ret |-> ret, polled |-> polled, reads |-> reads, zones |-> zones,
     kb |-> kb]

JInit ==
    /\ \E n \in 0..Cardinality(DeviceIds) :    \* num_joysticks()
           joysticks = [id \in 0..(n - 1) |-> DeviceGuid(id)]
    /\ keyboard = {}
    /\ pressed = {}
    /\ active = None
    /\ jcall = JCall(None, {}, <<>>, {}, {})

\* Joysticks::add; joystick_subsystem.open(id)? may fail, which leaves the
\* table as it was.
Add(id) ==
    /\ \/ joysticks' = [i \in DOMAIN joysticks \cup {id} |->
                           IF i = id THEN DeviceGuid(id) ELSE joysticks[i]]
       \/ joysticks' = joysticks
    /\ UNCHANGED <<keyboard, pressed, active, jcall, limits, lcall, mvars, wvars>>

\* A variant of remove that forgets the calibration of the device's axes.
RemoveForgetting(id) ==
    /\ joysticks' = [i \in DOMAIN joysticks \ {id} |-> joysticks[i]]
    /\ limits' = [k \in {x \in DOMAIN limits :
                            id \in DOMAIN joysticks => x[1] # joysticks[id]}
                     |-> limits[k]]
    /\ UNCHANGED <<keyboard, pressed, active, jcall, lcall, mvars, wvars>>

\* Joysticks::remove
Remove(id) ==
    /\ joysticks' = [i \in DOMAIN joysticks \ {id} |-> joysticks[i]]
    /\ UNCHANGED <<keyboard, pressed, active, jcall, limits, lcall, mvars, wvars>>

\* Joysticks::reset_limits
ResetLimits ==
    /\ limits' = JoustickLimitsReset(limits)
    /\ UNCHANGED <<joysticks, keyboard, pressed, active, jcall, lcall, mvars, wvars>>

\* Joysticks::key_down
KeyDown(key) ==
    /\ keyboard' = keyboard \cup {InputKey(key)}
    /\ UNCHANGED <<joysticks, pressed, active, jcall, limits, lcall, mvars, wvars>>

\* Joysticks::key_up
KeyUp(key) ==
    /\ keyboard' = keyboard \ {InputKey(key)}
    /\ UNCHANGED <<joysticks, pressed, active, jcall, limits, lcall, mvars, wvars>>

\* Joysticks::update: the devices come in any order, report any values, and
\* any one read may fail.
Update ==
    \E order \in Orders(DOMAIN joysticks),
       reads \in [DOMAIN joysticks ->
                    UNION {Readings(joysticks[id]) : id \in DOMAIN joysticks}] :
        /\ \A id \in DOMAIN joysticks : reads[id] \in Readings(joysticks[id])
        /\ \E rds \in {AllReads(order, joysticks, reads)} :
           \E fail \in 0..Len(rds) :
           \E out \in {JoysticksUpdate(limits, pressed, keyboard, rds, fail)} :
               /\ limits' = out.limits
               /\ pressed' = out.pressed
               /\ active' = out.active
               /\ jcall' = IF out.ret = "Ok"
                           THEN JCall("Ok", DOMAIN joysticks, reads,
                                      out.zones, keyboard)
                           ELSE JCall("Err", {}, <<>>, {}, {})
        /\ UNCHANGED <<joysticks, keyboard, lcall, mvars, wvars>>

(***************************************************************************)
(* The preferences file: Mapping::save, Mapping::load and the start of the *)
(* Visualiser (src/src/mapping.rs, src/src/visualizer.rs).                 *)
(***************************************************************************)
\* What the preferences path may hold besides a document: no file, a file
\* that cannot be opened, a file that is no document of a Mapping.
File(kind, doc) == [kind |-> kind, doc |-> doc]

Absent == File("Absent", <<>>)
Unreadable == File("Unreadable", <<>>)
Corrupt == File("Corrupt", <<>>)

\* The orders in which the iteration of a HashSet or HashMap may yield S.
IterOrders(S) ==
    {o \in [1..Cardinality(S) -> S] : \A i, j \in 1..Cardinality(S) :
                                          i # j => o[i] # o[j]}

\* The documents serde writes for one entry: its buttons become a sequence,
\* in the order the set yields them.
EntryDocs(e) ==
    {[buttons |-> o, sprite |-> e.sprite] : o \in IterOrders(e.buttons)}

RECURSIVE ListDocs(_)
ListDocs(list) ==
    IF list = <<>> THEN {<<>>}
    ELSE {<<h>> \o t : h \in EntryDocs(Head(list)),
                       t \in ListDocs(Tail(list))}

RECURSIVE DocsFor(_, _)
DocsFor(m, gorder) ==
    IF gorder = <<>> THEN {<<>>}
    ELSE {<<[guid |-> Head(gorder), entries |-> l]>> \o t :
              l \in ListDocs(m[Head(gorder)]),
              t \in DocsFor(m, Tail(gorder))}

\* serde_yaml::to_writer of a Mapping: the documents it may write, the
\* devices in the order the map yields them.
Documents(m) == UNION {DocsFor(m, o) : o \in IterOrders(DOMAIN m)}

\* serde_yaml::from_reader of a document: the sequences of buttons become
\* sets again, the lists keep the order of the document.
DocRange(seq) == {seq[i] : i \in 1..Len(seq)}

DocEntries(doc, guid) ==
    LET d == CHOOSE x \in DocRange(doc) : x.guid = guid
    IN  [i \in 1..Len(d.entries) |->
            SpriteMapping(DocRange(d.entries[i].buttons),
                          d.entries[i].sprite)]

Load(doc) == [g \in {x.guid : x \in DocRange(doc)} |-> DocEntries(doc, g)]

\* The result of a load or of a start: on "Err" there is no Mapping, and the
\* model keeps an empty one in its place.
LoadResult(ret, m) == [ret |-> ret, mapping |-> m]

\* Mapping::load: File::open fails on a missing or unreadable file,
\* from_reader fails on a file that is no document.
MappingLoad(file) ==
    IF file \in {Absent, Unreadable, Corrupt}
    THEN LoadResult("Err", MappingNew)
    ELSE LoadResult("Ok", Load(file.doc))

\* The start, were it to fall back to an empty Mapping on every failure.
VisualiserCreateMappingLenient(file) ==
    IF MappingLoad(file).ret = "Ok" THEN MappingLoad(file)
    ELSE LoadResult("Ok", MappingNew)

\* Visualiser::create: the Mapping it starts with, or its failure.
VisualiserCreateMapping(file) ==
    IF file # Absent                      \* preferences.exists()
    THEN MappingLoad(file)
    ELSE LoadResult("Ok", MappingNew)

PCall(op, file, ret) == [op |-> op, file |-> file, ret |-> ret]

\* The last start has not failed: there is a Visualiser and its Mapping.
Running == mcall.op = "create" => mcall.ret = "Ok"

\* A call of Mapping::push on the Mapping of a running Visualiser.
PPush(guid, P, sprite) == Running /\ MPush(guid, P, sprite)

\* A call of Mapping::save; mret is what the preferences path holds after
\* it: a document of the Mapping or, when the call failed, no document.
MSave ==
    /\ Running
    /\ \E file \in {File("Document", doc) : doc \in Documents(mapping)}
                        \cup {Absent, Unreadable, Corrupt} :
           /\ mret' = file
           /\ mcall' = PCall("save", file,
                             IF file.kind = "Document" THEN "Ok" ELSE "Err")
    /\ mpre' = mapping
    /\ UNCHANGED <<mapping, lvars, jvars, wvars>>

\* The program is started again: Visualiser::create on what the preferences
\* path holds, the file the last save left among the cases.
Restart ==
    \E file \in {Absent, Unreadable, Corrupt}
                    \cup (IF mcall.op = "save" THEN {mret} ELSE {}) :
        /\ mapping' = VisualiserCreateMapping(file).mapping
        /\ mcall' = PCall("create", file, VisualiserCreateMapping(file).ret)
        /\ mpre' = mapping
        /\ mret' = <<>>
        /\ UNCHANGED <<lvars, jvars, wvars>>

(***************************************************************************)
(* The Visualiser and its setup wizard (src/src/visualizer.rs).            *)
(***************************************************************************)
MaxSprites == 2

\* The main loop at the start of a frame: it runs, and has made no call of
\* update() and no call of update_setup() in this frame.
FrameNew == [running |-> TRUE, updates |-> 0, transitions |-> 0]

\* The sprite catalogs of a configuration: for each sprite id, in the order
\* of the configuration, whether the sprite is a default one.
Catalogs == UNION {[1..n -> BOOLEAN] : n \in 0..MaxSprites}

\* Visualiser::create splits the sprite ids, which count from 0, into the
\* set of the default ones and the list of the bindable ones.
DefaultOf(cat) == {i - 1 : i \in {j \in 1..Len(cat) : cat[j]}}

RECURSIVE BindableOf(_)
BindableOf(cat) ==
    IF cat = <<>> THEN <<>>
    ELSE LET n == Len(cat)
             front == BindableOf(SubSeq(cat, 1, n - 1))
         IN  IF cat[n] THEN front ELSE Append(front, n - 1)

\* SetupOverlay
SetupOverlayNew(sprites) ==
    [sprites |-> sprites, enabled |-> FALSE, current |-> 0]

\* SetupOverlay::current: the index counts from 0
SetupCurrent(s) ==
    IF s.current < Len(s.sprites) THEN s.sprites[s.current + 1] ELSE 0

\* enable, were it to leave the cursor where the last run left it
SetupEnableKeepCursor(s) == [s EXCEPT !.enabled = TRUE]

SetupEnable(s) == [s EXCEPT !.enabled = TRUE, !.current = 0]

\* disable, were it to leave the cursor where it is
SetupDisableKeepCursor(s) == [s EXCEPT !.enabled = FALSE]

SetupDisable(s) == [s EXCEPT !.enabled = FALSE, !.current = 0]

\* SetupOverlay::next_sprite; its result is the new value of enabled
SetupNextSprite(s) ==
    [s EXCEPT !.current = s.current + 1,
              !.enabled = s.current + 1 < Len(s.sprites)]

\* One call of Mapping::push as the wizard makes it.
PushCall(guid, P, sprite) == [guid |-> guid, pressed |-> P, sprite |-> sprite]

\* The Mapping after a sequence of pushes.
RECURSIVE PushAll(_, _)
PushAll(m, calls) ==
    IF calls = <<>> THEN m
    ELSE PushAll(Push(m, Head(calls).guid, Head(calls).pressed,
                      Head(calls).sprite), Tail(calls))

\* The clears of the default sprites, in the order the set yields them.
Clears(guid, order) == [i \in 1..Len(order) |-> PushCall(guid, {}, order[i])]

\* The result of one toggle: the pushes it made, whether it called save,
\* what it returned, and the wizard and the help overlay afterwards.
ToggleResult(pushes, saved, ret, s, help) ==
    [pushes |-> pushes, saved |-> saved, ret |-> ret, setup |-> s,
     show_help |-> help]

\* update_setup, were it to save on every toggle made while recording
VisualiserUpdateSetupSaveEach(m, s, help, act, prs, order, saveOk) ==
    IF s.enabled
    THEN LET first == IF act # None
                      THEN <<PushCall(act, prs, SetupCurrent(s))>>
                      ELSE <<>>
             s1 == SetupNextSprite(s)
             pushes == IF act # None /\ ~s1.enabled
                       THEN first \o Clears(act, order)
                       ELSE first
         IN  IF saveOk
             THEN ToggleResult(pushes, TRUE, "Ok", s1,
                               IF s1.enabled THEN help ELSE FALSE)
             ELSE ToggleResult(pushes, TRUE, "Err", s1, help)
    ELSE ToggleResult(<<>>, FALSE, "Ok", SetupEnable(s), help)

\* update_setup, were it to advance the cursor before it records
VisualiserUpdateSetupAdvanceFirst(m, s, help, act, prs, order, saveOk) ==
    IF s.enabled
    THEN LET s1 == SetupNextSprite(s)
             first == IF act # None
                      THEN <<PushCall(act, prs, SetupCurrent(s1))>>
                      ELSE <<>>
         IN  IF ~s1.enabled
             THEN LET pushes == IF act # None
                                THEN first \o Clears(act, order)
                                ELSE first
                  IN  IF saveOk
                      THEN ToggleResult(pushes, TRUE, "Ok", s1, FALSE)
                      ELSE ToggleResult(pushes, TRUE, "Err", s1, help)
             ELSE ToggleResult(first, FALSE, "Ok", s1, help)
    ELSE ToggleResult(<<>>, FALSE, "Ok", SetupEnable(s), help)

\* Visualiser::update_setup on the Mapping m, the wizard s, the help flag,
\* the active device and pressed set of the Joysticks and the default set
\* given in the order its iteration yields it; saveOk is the outcome of
\* Mapping::save, should it be called.
VisualiserUpdateSetup(m, s, help, act, prs, order, saveOk) ==
    IF s.enabled
    THEN LET first == IF act # None
                      THEN <<PushCall(act, prs, SetupCurrent(s))>>
                      ELSE <<>>
             s1 == SetupNextSprite(s)
         IN  IF ~s1.enabled
             THEN LET pushes == IF act # None
                                THEN first \o Clears(act, order)
                                ELSE first
                  IN  IF saveOk
                      THEN ToggleResult(pushes, TRUE, "Ok", s1, FALSE)
                      ELSE ToggleResult(pushes, TRUE, "Err", s1, help)
             ELSE ToggleResult(first, FALSE, "Ok", s1, help)
    ELSE ToggleResult(<<>>, FALSE, "Ok", SetupEnable(s), help)

\* What the model keeps of a call on the wizard: the operation, whether the
\* wizard was recording when it was made, whether it called save and what it
\* returned, and the number of calls of save since the wizard was last
\* entered.
WCall(op, s, saved, ret, saves) ==
    [op |-> op, enabled |-> s.enabled, saved |-> saved, ret |-> ret,
     saves |-> saves]

\* Visualiser::create: the catalog of the configuration is split, the wizard
\* is idle and the help overlay is shown.
WInit ==
    \E cat \in Catalogs :
        /\ default = DefaultOf(cat)
        /\ setup = SetupOverlayNew(BindableOf(cat))
        /\ show_help = TRUE
        /\ wcall = WCall("create", SetupOverlayNew(BindableOf(cat)), FALSE,
                         "Ok", 0)
        /\ frame = FrameNew

\* A call of Visualiser::update_setup, as far as the Visualiser goes.
UpdateSetupCall ==
    /\ (setup.enabled /\ active # None /\ pressed # {})
           => NumEntries(mapping) < MaxEntries
    /\ \E order \in Orders(default), saveOk \in BOOLEAN :
       \E out \in {VisualiserUpdateSetup(mapping, setup, show_help, active,
                                         pressed, order, saveOk)} :
           /\ mapping' = PushAll(mapping, out.pushes)
           /\ setup' = out.setup
           /\ show_help' = out.show_help
           /\ wcall' = WCall("update_setup", setup, out.saved, out.ret,
                             IF ~setup.enabled THEN 0
                             ELSE IF out.saved THEN wcall.saves + 1
                             ELSE wcall.saves)
    /\ UNCHANGED <<default, mcall, mpre, mret, lvars, jvars>>

\* A call of Visualiser::update_setup: the wizard's toggle.
Toggle == UpdateSetupCall /\ UNCHANGED frame

\* Visualiser::cancel_setup
Cancel ==
    /\ setup' = SetupDisable(setup)
    /\ wcall' = WCall("cancel_setup", setup, FALSE, "Ok", wcall.saves)
    /\ UNCHANGED <<default, show_help, frame, mvars, lvars, jvars>>

\* Visualiser::key_down
VisualiserKeyDown(key) ==
    /\ keyboard' = keyboard \cup {InputKey(key)}
    /\ show_help' = FALSE
    /\ UNCHANGED <<joysticks, pressed, active, jcall, lvars, mvars,
                   default, setup, wcall, frame>>

\* Visualiser::draw, as far as it changes the Visualiser: while the help
\* overlay is shown it is kept only if something is pressed or the wizard
\* is idle.
DrawCall ==
    /\ show_help' = IF show_help
                    THEN (pressed # {}) \/ ~setup.enabled
                    ELSE show_help
    /\ UNCHANGED <<default, setup, wcall, mvars, lvars, jvars>>

Draw == DrawCall /\ UNCHANGED frame


\* The main loop (src/src/main.rs): in each frame it handles the events
\* that are pending, each by one call on the Visualiser, and then draws.
\* An error of a call ends the loop, and so does Quit or Escape.
MaxEvents == 2

\* Event::KeyDown of Return: visualiser.update_setup()?
MainReturn ==
    /\ frame.running
    /\ frame.transitions < MaxEvents
    /\ UpdateSetupCall
    /\ frame' = [frame EXCEPT !.transitions = @ + 1,
                              !.running = (wcall'.ret = "Ok")]

\* Event::JoyDeviceAdded: visualiser.joystick_add(..)?
MainJoyDeviceAdded(id) ==
    /\ frame.running
    /\ \/ /\ joysticks' = [i \in DOMAIN joysticks \cup {id} |->
                              IF i = id THEN DeviceGuid(id) ELSE joysticks[i]]
          /\ frame' = frame
       \/ /\ joysticks' = joysticks
          /\ frame' = [frame EXCEPT !.running = FALSE]
    /\ UNCHANGED <<keyboard, pressed, active, jcall, lvars, mvars,
                   default, setup, show_help, wcall>>

\* Event::JoyDeviceRemoved: visualiser.joystick_remove(which)
MainJoyDeviceRemoved(id) == frame.running /\ Remove(id)

\* Event::Quit, or Event::KeyDown of Escape: break 'running
MainQuit ==
    /\ frame.running
    /\ frame' = [frame EXCEPT !.running = FALSE]
    /\ UNCHANGED <<default, setup, show_help, wcall, mvars, lvars, jvars>>

\* The end of a frame: visualiser.draw(..)?, after which the next frame
\* starts; a draw that fails ends the loop.
MainDraw ==
    /\ frame.running
    /\ \/ DrawCall /\ frame' = FrameNew
       \/ /\ frame' = [frame EXCEPT !.running = FALSE]
          /\ UNCHANGED <<default, setup, show_help, wcall, mvars, lvars,
                         jvars>>

LIdle == limits = <<>> /\ lcall = <<>>

JIdle ==
    /\ joysticks = <<>>
    /\ keyboard = {}
    /\ pressed = {}
    /\ active = None
    /\ jcall = <<>>

WIdle ==
    /\ default = {}
    /\ setup = <<>>
    /\ show_help = TRUE
    /\ wcall = <<>>
    /\ frame = FrameNew

\* The Mapping under arbitrary calls of push and sprites.
InitMapping == MInit /\ LIdle /\ JIdle /\ WIdle

SpecMapping == InitMapping /\ [][NextMapping]_vars

\* The JoustickLimits under arbitrary calls of update, zone and reset.
InitLimits == LInit /\ MIdle /\ JIdle /\ WIdle

NextLimits ==
    \/ \E key \in LimitKeys, value \in AxisValues : JLUpdate(key, value)
    \/ \E key \in LimitKeys, value \in AxisValues : JLZone(key, value)
    \/ JLReset

SpecLimits == InitLimits /\ [][NextLimits]_vars

\* The Joysticks under device, key and frame events.
InitJoysticks ==
    /\ JInit
    /\ limits = JoustickLimitsNew
    /\ lcall = <<>>
    /\ MIdle
    /\ WIdle

NextJoysticks ==
    \/ \E id \in DeviceIds : Add(id)
    \/ \E id \in DeviceIds : Remove(id)
    \/ \E key \in Keys : KeyDown(key)
    \/ \E key \in Keys : KeyUp(key)
    \/ ResetLimits
    \/ Update

SpecJoysticks == InitJoysticks /\ [][NextJoysticks]_vars

\* The Visualiser with one device, an axis alone, under frame, device and
\* wizard events.
WizardDevice == 2

Init ==
    /\ WInit
    /\ joysticks \in {<<>>, WizardDevice :> DeviceGuid(WizardDevice)}
    /\ keyboard = {}
    /\ pressed = {}
    /\ active = None
    /\ jcall = <<>>
    /\ limits = JoustickLimitsNew
    /\ lcall = <<>>
    /\ MIdle

Next ==
    \/ Add(WizardDevice)
    \/ Remove(WizardDevice)
    \/ ResetLimits
    \/ Update
    \/ Toggle
    \/ Cancel
    \/ Draw

Spec == Init /\ [][Next]_vars

\* The Visualiser of a configuration with one sprite, a bindable one, under
\* every event that reaches it, the key events among them.
InitCalibration ==
    /\ Init
    /\ default = {}
    /\ setup.sprites = <<0>>

NextCalibration ==
    \/ Next
    \/ \E key \in Keys : VisualiserKeyDown(key)
    \/ \E key \in Keys : KeyUp(key)

SpecCalibration == InitCalibration /\ [][NextCalibration]_vars

\* The Mapping of a Visualiser that is started, changed by pushes, saved and
\* started again.
InitPreferences == MInit /\ LIdle /\ JIdle /\ WIdle

NextPreferences ==
    \/ \E guid \in Guids, P \in SUBSET MInputs, sprite \in SpriteIds :
           PPush(guid, P, sprite)
    \/ MSave
    \/ Restart

SpecPreferences == InitPreferences /\ [][NextPreferences]_vars

\* The program: Visualiser::create and the main loop.
InitMain == Init

NextMain ==
    \/ MainReturn
    \/ MainJoyDeviceAdded(WizardDevice)
    \/ MainJoyDeviceRemoved(WizardDevice)
    \/ MainQuit
    \/ MainDraw

SpecMain == InitMain /\ [][NextMain]_vars

(***************************************************************************)
(* Properties of the Mapping.                                              *)
(***************************************************************************)
\* The sprite ids of the entries of a list whose buttons are all in P, in
\* the list's order.
RECURSIVE SubsetMatches(_, _)
SubsetMatches(list, P) ==
    IF list = <<>> THEN <<>>
    ELSE IF Head(list).buttons \subseteq P
         THEN <<Head(list).sprite>> \o SubsetMatches(Tail(list), P)
         ELSE SubsetMatches(Tail(list), P)

\* The entries of a list whose sprite is not the given one, in order.
RECURSIVE WithoutSprite(_, _)
WithoutSprite(list, sprite) ==
    IF list = <<>> THEN <<>>
    ELSE IF Head(list).sprite # sprite
         THEN <<Head(list)>> \o WithoutSprite(Tail(list), sprite)
         ELSE WithoutSprite(Tail(list), sprite)

Contains(seq, x) == \E i \in 1..Len(seq) : seq[i] = x

\* C1: sprites(guid, P) returns exactly the sprite ids of the entries of
\* guid's list whose buttons set is a subset of P, in the list's stored order.
C1_SpritesAreSubsetMatches ==
    mcall.op = "sprites" =>
        mret = SubsetMatches(EntryOf(mapping, mcall.guid), mcall.pressed)

\* C2: push(guid, {}, id) removes every entry of guid whose sprite is id and
\* no entry with another sprite; afterwards no sprites(guid, P) contains id.
C2_ClearRemovesExactlySprite ==
    (mcall.op = "push" /\ mcall.pressed = {}) =>
        /\ mapping[mcall.guid] =
               WithoutSprite(EntryOf(mpre, mcall.guid), mcall.sprite)
        /\ \A P \in SUBSET MInputs :
               ~Contains(Sprites(mapping, mcall.guid, P), mcall.sprite)

\* C3: after any sequence of pushes every device's list is sorted by
\* descending size of the buttons set, ties broken by ascending sprite id.
C3_ListsSorted ==
    \A g \in DOMAIN mapping :
        \A i \in 1..(Len(mapping[g]) - 1) :
            LET a == mapping[g][i]
                b == mapping[g][i + 1]
            IN  \/ Cardinality(a.buttons) > Cardinality(b.buttons)
                \/ /\ Cardinality(a.buttons) = Cardinality(b.buttons)
                   /\ a.sprite <= b.sprite

\* A push has just placed its entry before older ones, in a list that holds
\* entries of two sizes and two entries of one rank.
C3_Witness ==
    /\ mcall.op = "push"
    /\ mcall.pressed # {}
    /\ LET old == EntryOf(mpre, mcall.guid)
           new == mapping[mcall.guid]
       IN  /\ Len(new) = 3
           /\ new # Append(old, SpriteMapping(mcall.pressed, mcall.sprite))
           /\ Cardinality(new[1].buttons) > Cardinality(new[3].buttons)
           /\ \E i \in 1..2 : /\ new[i].sprite = new[i + 1].sprite
                              /\ Cardinality(new[i].buttons)
                                     = Cardinality(new[i + 1].buttons)

\* C4: after push(guid, S, id) with non-empty S, sprites(guid, S) contains
\* id, and for a proper subset T of S sprites(guid, T) contains id only when
\* the entries that were there before the push already yield id for T.
C4_PushMatchesSNotSubsets ==
    (mcall.op = "push" /\ mcall.pressed # {}) =>
        /\ Contains(Sprites(mapping, mcall.guid, mcall.pressed), mcall.sprite)
        /\ \A T \in SUBSET mcall.pressed :
               (T # mcall.pressed
                    /\ Contains(Sprites(mapping, mcall.guid, T), mcall.sprite))
                 => Contains(Sprites(mpre, mcall.guid, T), mcall.sprite)

(***************************************************************************)
(* Properties of the axis calibration.                                     *)
(***************************************************************************)
\* The classification by thirds of the observed range [lo, hi].
ThirdsZone(lo, hi, v) ==
    LET low == lo + TruncDiv(hi - lo, 3)
        high == lo + TruncDiv(2 * (hi - lo), 3)
    IN  IF v < low THEN "Min" ELSE IF v > high THEN "Max" ELSE "Default"

\* C5: for an axis whose observed range is [min, max], a value below
\* min + (max-min)/3 is classified Min, one above min + 2*(max-min)/3 is
\* classified Max, and any other value is neutral.
C5_ZoneSplitsRangeInThirds ==
    (lcall.op = "zone" /\ lcall.key \in DOMAIN limits) =>
        lcall.zone = ThirdsZone(limits[lcall.key].min, limits[lcall.key].max,
                                lcall.value)

\* The values of the model an axis classifies as the given zone.
ZoneSet(l, zone) == {v \in AxisValues : AxisLimitsZone(l, v) = zone}

C7_UnknownKeyIsNeutral ==
    (lcall.op = "zone" /\ ~lcall.known) =>
        /\ lcall.zone = "Default"
        /\ lcall.key \notin DOMAIN limits

\* A non-zero value has just been classified for a key that has no state,
\* while the other key has.
C7_Witness ==
    /\ lcall.op = "zone"
    /\ ~lcall.known
    /\ lcall.value # 0
    /\ limits # <<>>

(***************************************************************************)
(* Properties of the device aggregator.                                    *)
(***************************************************************************)
\* The button and hat indexes of the devices of the model.
Indexes == {0}

\* The inputs the devices contributed to the last update(): the pressed
\* buttons and the non-centered hats they reported and the axes it
\* classified Min or Max.
DeviceInputs ==
    {button(b) : b \in {i \in Indexes : \E id \in jcall.polled :
                           /\ i + 1 \in DOMAIN jcall.reads[id].buttons
                           /\ jcall.reads[id].buttons[i + 1]}}
    \cup {hat(h[1], StateFrom(h[2])) :
              h \in {x \in Indexes \X (HatStates \ {"Centered"}) :
                        \E id \in jcall.polled :
                           /\ x[1] + 1 \in DOMAIN jcall.reads[id].hats
                           /\ jcall.reads[id].hats[x[1] + 1] = x[2]}}
    \cup {axis_min(z[2]) : z \in {y \in jcall.zones : y[3] = "Min"}}
    \cup {axis_max(z[2]) : z \in {y \in jcall.zones : y[3] = "Max"}}

\* The inputs that were active in the last update(): those of the devices
\* and the keys that were held.
ActiveInputs == DeviceInputs \cup jcall.kb

\* C8: after a successful update() the pressed set is exactly the set of the
\* inputs active in that call, and holds no centered hat.
C8_PressedIsThisFrame ==
    jcall.ret = "Ok" =>
        /\ pressed = ActiveInputs
        /\ \A i \in pressed : ~(i.kind = "Hat" /\ i.sub = "Center")

\* A successful update() of two devices has left only the pressed button in
\* the pressed set: the hat is centered, and the axis of the first device,
\* which an earlier update() had put in the set (its range has widened
\* since the first sample), is no longer there.
C8_Witness ==
    /\ jcall.ret = "Ok"
    /\ jcall.polled = {0, 1}
    /\ jcall.reads[1].hats[1] = "Centered"
    /\ jcall.reads[0].buttons[1]
    /\ GuidAxis("G1", 0) \in DOMAIN limits
    /\ limits[GuidAxis("G1", 0)].min < limits[GuidAxis("G1", 0)].max
    /\ pressed = {button(0)}

\* C9: an update() that fails leaves the pressed set and the active device
\* as the successful update() before it had left them.
C9_FailedUpdateChangesNothing ==
    [][(jcall.ret = "Ok" /\ jcall'.ret = "Err")
           => (pressed' = pressed /\ active' = active)]_vars

BothDirections ==
    \E a \in Indexes : axis_min(a) \in pressed /\ axis_max(a) \in pressed

\* C10 as stated: the pressed set never holds Axis(i, Minimum) and
\* Axis(i, Maximum) for one axis index i, however many devices are open.
C10_NeverBothDirections == ~BothDirections

\* C10: when the last update() iterated at most one device, the pressed set
\* does not hold Axis(i, Minimum) and Axis(i, Maximum) for one axis index i.
C10_OneDeviceOneDirection ==
    (jcall.ret = "Ok" /\ Cardinality(jcall.polled) <= 1) => ~BothDirections

\* An update() of a single device has put an axis direction in the pressed
\* set.
C10_Witness ==
    /\ jcall.ret = "Ok"
    /\ Cardinality(jcall.polled) = 1
    /\ axis_max(0) \in pressed

(***************************************************************************)
(* Properties of the setup wizard.                                         *)
(***************************************************************************)
\* The step is a call of update_setup.
ToggleStep == wcall'.op = "update_setup" /\ setup' # setup

\* The last call on the wizard was the toggle that exhausted the list.
Completed ==
    /\ wcall.op = "update_setup"
    /\ wcall.enabled
    /\ ~setup.enabled

\* In a run of the wizard save is called on the toggle that exhausts the
\* bindable list, once, and on no other toggle and on no cancel.
SavedOnceOnCompletion ==
    /\ wcall.saves \in {0, 1}
    /\ setup.enabled => wcall.saves = 0
    /\ (wcall.op = "cancel_setup" /\ wcall.enabled) =>
           (~wcall.saved /\ wcall.saves = 0)
    /\ wcall.saved => (Completed /\ setup.current >= Len(setup.sprites))
    /\ Completed => (wcall.saved /\ wcall.saves = 1)

C12_TogglePushesCurrentThenAdvances ==
    [][(ToggleStep /\ setup.enabled /\ setup.current < Len(setup.sprites)) =>
          /\ setup'.current = setup.current + 1
          /\ active = None => mapping' = mapping
          /\ active # None =>
                \E order \in Orders(default) :
                    mapping' = PushAll(
                        Push(mapping, active, pressed,
                             setup.sprites[setup.current + 1]),
                        IF setup'.enabled THEN <<>>
                        ELSE Clears(active, order))]_vars

\* A toggle at cursor 0 of two bindable sprites has recorded the first of
\* them for the active device.
C12_Witness ==
    /\ wcall.op = "update_setup"
    /\ wcall.enabled
    /\ setup.enabled
    /\ setup.current = 1
    /\ active # None
    /\ active \in DOMAIN mapping
    /\ mapping[active] = <<SpriteMapping(pressed, setup.sprites[1])>>

\* C13 as stated: when the wizard completes with a device active, the list
\* of the active device in the Mapping that is saved has no entry for any
\* default sprite and still has the binding this run recorded last.
C13_ClearsKeepRecordedBindings ==
    [][(ToggleStep /\ setup.enabled /\ ~setup'.enabled /\ active # None
            /\ setup.current < Len(setup.sprites)) =>
          /\ \A i \in 1..Len(EntryOf(mapping', active)) :
                 mapping'[active][i].sprite \notin default
          /\ pressed # {} =>
                 Contains(EntryOf(mapping', active),
                          SpriteMapping(pressed,
                                        setup.sprites[setup.current + 1]))
      ]_vars

\* C14: cancel in Recording(i) leaves the wizard Idle at cursor 0, leaves
\* the Mapping as it was, and does not save.
C14_CancelKeepsMappingUnsaved ==
    [][(setup.enabled /\ wcall'.op = "cancel_setup") =>
          /\ ~setup'.enabled
          /\ setup'.current = 0
          /\ mapping' = mapping
          /\ ~wcall'.saved
          /\ wcall'.saves = wcall.saves]_vars

\* A run that had recorded a binding and moved on was cancelled.
C14_Witness ==
    /\ wcall.op = "cancel_setup"
    /\ wcall.enabled
    /\ ~setup.enabled
    /\ setup.current = 0
    /\ wcall.saves = 0
    /\ \E g \in DOMAIN mapping : mapping[g] # <<>>

\* C15 as stated: whenever the wizard is Idle or its bindable list is
\* empty, current() returns the sentinel sprite id 0.
C15_IdleCurrentIsSentinel ==
    (~setup.enabled \/ setup.sprites = <<>>) => SetupCurrent(setup) = 0

\* C18: a toggle in Idle enters Recording at cursor 0, whatever the cursor
\* was, pushes nothing into the Mapping and does not save.
C18_IdleToggleOnlyEnters ==
    [][(ToggleStep /\ ~setup.enabled) =>
          /\ setup'.enabled
          /\ setup'.current = 0
          /\ setup'.sprites = setup.sprites
          /\ mapping' = mapping
          /\ ~wcall'.saved
          /\ show_help' = show_help]_vars

\* The wizard was entered again after a completed run, with a device active
\* and an input pressed.
C18_Witness ==
    /\ wcall.op = "update_setup"
    /\ ~wcall.enabled
    /\ setup.enabled
    /\ setup.current = 0
    /\ active # None
    /\ pressed # {}
    /\ \E g \in DOMAIN mapping : mapping[g] # <<>>

(***************************************************************************)
(* Properties of the preferences file.                                     *)
(***************************************************************************)
\* C16 as stated: for every Mapping m reachable by pushes, load(save(m))
\* has the per-device ordered entry lists of m, and save(load(save(m)))
\* equals save(m).
C16_SerializationRoundTrips ==
    (mcall.op = "save" /\ mcall.ret = "Ok") =>
        /\ Load(mret.doc) = mapping
        /\ \A doc \in Documents(Load(mret.doc)) : doc = mret.doc

C19_HeldKeysJoinAndTakeActive ==
    jcall.ret = "Ok" =>
        /\ jcall.kb # {} =>
               /\ jcall.kb \subseteq pressed
               /\ DeviceInputs \subseteq pressed
               /\ active = "Keyboard"
        /\ jcall.kb = {} =>
               /\ pressed = DeviceInputs
               /\ active # "Keyboard"
               /\ active = None <=> DeviceInputs = {}
               /\ active # None =>
                      \E id \in jcall.polled : active = DeviceGuid(id)

\* An update() with a key held and a device active has made the keyboard
\* the active device.
C19_Witness ==
    /\ jcall.ret = "Ok"
    /\ jcall.kb # {}
    /\ DeviceInputs # {}
    /\ active = "Keyboard"
    /\ pressed = DeviceInputs \cup jcall.kb

\* C20: the calibration changes only in update(), and there only for the
\* axes of the devices that are open, and in reset_limits(): device, key and
\* wizard events leave it as it is; reset_limits() clears it for every key,
\* and a key that enters it holds its first sample alone.
C20_CalibrationChangesOnlyByUpdateAndReset ==
    [][/\ limits' # limits => (Update \/ ResetLimits)
       /\ ResetLimits => limits' = JoustickLimitsNew
       /\ \A k \in DOMAIN limits' :
              (k \notin DOMAIN limits \/ limits'[k] # limits[k]) =>
                  /\ \E id \in DOMAIN joysticks : joysticks[id] = k[1]
                  /\ k \notin DOMAIN limits =>
                         /\ limits'[k].min = limits'[k].default
                         /\ limits'[k].max = limits'[k].default]_vars

\* The device has been removed with a key held and the wizard cancelled,
\* and the range its axis had reached is still known.
C20_Witness ==
    /\ joysticks = <<>>
    /\ keyboard # {}
    /\ wcall.op = "cancel_setup"
    /\ \E k \in DOMAIN limits : limits[k].min < limits[k].max

(***************************************************************************)
(* Properties of the main loop.                                            *)
(***************************************************************************)
\* C21 as stated: in every frame of the main loop one update() comes before
\* at most one wizard transition and the render pass: a wizard transition
\* is the first of its frame and follows the one update() of the frame, and
\* so does the render that ends the frame.
C21_OneUpdateThenTransitionThenRender ==
    [][/\ ToggleStep => (frame.updates = 1 /\ frame.transitions = 0)
       /\ (frame.running /\ frame' = FrameNew /\ joysticks' = joysticks) =>
              frame.updates = 1]_vars

(***************************************************************************)
(* Further properties of the wizard and of the Mapping.                    *)
(***************************************************************************)
\* C22 as stated: when save fails on the toggle that completes the wizard,
\* the toggle returns the error, the wizard is no longer recording, and the
\* Mapping still holds the entry this toggle pushed, the last of the run.
C22_FailedSaveKeepsPushedEntries ==
    [][(ToggleStep /\ wcall'.saved /\ wcall'.ret = "Err") =>
          /\ ~setup'.enabled
          /\ (active # None /\ pressed # {}
                  /\ setup.current < Len(setup.sprites)) =>
                 Contains(EntryOf(mapping', active),
                          SpriteMapping(pressed,
                                        setup.sprites[setup.current + 1]))
      ]_vars

\* C23: after every successful update(), and in every other state, the
\* active device is None exactly when the pressed set is empty; hence where
\* a recording toggle pushes, a device being active, the pressed set it
\* pushes is not empty.
C23_ActiveIffPressed ==
    /\ (jcall # <<>> /\ jcall.ret = "Ok") =>
           (active = None <=> pressed = {})
    /\ active = None <=> pressed = {}
    /\ (setup.enabled /\ active # None) => pressed # {}

\* The wizard is recording after a successful update() that found the axis
\* of the device pushed, and a toggle has recorded it.
C23_Witness ==
    /\ jcall # <<>>
    /\ jcall.ret = "Ok"
    /\ setup.enabled
    /\ setup.current = 1
    /\ active # None
    /\ pressed # {}
    /\ \E g \in DOMAIN mapping : mapping[g] # <<>>

\* The sprite ids of the bindable list.
BindableIds == {setup.sprites[i] : i \in 1..Len(setup.sprites)}

\* C24 as stated: in every state of the wizard enabled implies cursor <
\* length of the bindable list, and every non-empty entry the wizard has
\* pushed into the Mapping carries a sprite id of the bindable list, the
\* empty bindable list included.
C24_CursorInListAndIdsBindable ==
    /\ setup.enabled => setup.current < Len(setup.sprites)
    /\ \A g \in DOMAIN mapping : \A i \in 1..Len(mapping[g]) :
           mapping[g][i].sprite \in BindableIds

\* C25: push(guid, P, id) changes only the list of guid: every other device
\* has the list it had, or none as before, and sprites(g, Q) of every other
\* device g and every Q is what it was.
C25_PushChangesOnlyItsDevice ==
    mcall.op = "push" =>
        \A g \in Guids \ {mcall.guid} :
            /\ g \in DOMAIN mapping <=> g \in DOMAIN mpre
            /\ EntryOf(mapping, g) = EntryOf(mpre, g)
            /\ \A Q \in SUBSET MInputs :
                   Sprites(mapping, g, Q) = Sprites(mpre, g, Q)

\* A clear has changed the list of its device while the other device holds
\* entries.
C25_Witness ==
    /\ mcall.op = "push"
    /\ mcall.pressed = {}
    /\ mapping[mcall.guid] # EntryOf(mpre, mcall.guid)
    /\ \E g \in DOMAIN mapping \ {mcall.guid} : Len(mapping[g]) = 2

====
